---- MODULE Spec2Model ----
(***************************************************************************)
(* A model of the rigid-body state (src/dynamics/rigid_body.rs) and of the *)
(* position-level ground contact constraint                               *)
(* (src/dynamics/solver/position_ground_constraint.rs), dim2 build.        *)
(*                                                                         *)
(* Numbers.  Real is modelled by exact integer arithmetic on integer-      *)
(* valued inputs:                                                          *)
(*   - velocities, forces, impulses, positions of the body: integers;      *)
(*   - angles of the body pose: quarter turns (so rotations are exact);    *)
(*   - activation energy and threshold: units of 0.01, rounded to the      *)
(*     nearest unit where the code multiplies by 0.99 / 0.01;              *)
(*   - a comparison x > t / 10 is evaluated as 10 * x > t, and a           *)
(*     comparison with a norm, sqrt(a) + b > t, on the squares.            *)
(* Vector<Real> is a pair <<x, y>>, AngVector<Real> a scalar (dim2).       *)
(***************************************************************************)
EXTENDS Integers, Sequences, FiniteSets, TLC

VARIABLES
    rb,          \* the RigidBody under test (a record of its fields); in
                 \* SpecGenerate the RigidBodySet, by handle
    last,        \* the operation that returned last, with its arguments
    positions,   \* the solver's tentative position buffer
    constraint,  \* the PositionGroundConstraint being solved; in
                 \* SpecGenerate the vector out_constraints
    params,      \* the IntegrationParameters passed to the solver or to generate
    contact_manifold  \* the ContactManifold passed to generate last

vars == <<rb, last, positions, constraint, params, contact_manifold>>

-----------------------------------------------------------------------------
(* Bounds of the exploration *)

\* largest absolute value of a velocity component the exploration follows
MaxVel == 1
\* largest absolute value of a force / torque component the exploration follows
MaxForce == 1
\* largest activation energy (units of 0.01) from which update_energy is followed
MaxEnergy == 8

-----------------------------------------------------------------------------
(* Arithmetic helpers *)

Abs(x) == IF x < 0 THEN -x ELSE x
Min(a, b) == IF a <= b THEN a ELSE b
Max(a, b) == IF a >= b THEN a ELSE b
\* a / b rounded to the nearest integer (b > 0), as a float operation rounds
RoundDiv(a, b) == (2 * a + b) \div (2 * b)

\* Real::MAX: larger than every other number of the model
REAL_MAX == 1000000000

Zero2 == <<0, 0>>
VAdd(a, b) == <<a[1] + b[1], a[2] + b[2]>>
VSub(a, b) == <<a[1] - b[1], a[2] - b[2]>>
VScale(a, k) == <<a[1] * k, a[2] * k>>
VNeg(a) == <<-a[1], -a[2]>>
Dot(a, b) == a[1] * b[1] + a[2] * b[2]
NormSquared(a) == Dot(a, a)
\* WCross for dim2 vectors: the perp product, a scalar
GCross(a, b) == a[1] * b[2] - a[2] * b[1]

\* Rotation<Real> of the body pose: q quarter turns
Rotate(q, v) ==
    CASE q % 4 = 0 -> v
      [] q % 4 = 1 -> <<-v[2], v[1]>>
      [] q % 4 = 2 -> <<-v[1], -v[2]>>
      [] q % 4 = 3 -> <<v[2], -v[1]>>

\* Isometry<Real>: [rotation |-> quarter turns, translation |-> vector]
Iso(q, t) == [rotation |-> q % 4, translation |-> t]
Identity == Iso(0, Zero2)
IsoMul(a, b) == Iso(a.rotation + b.rotation,
                    VAdd(Rotate(a.rotation, b.translation), a.translation))
IsoInverse(a) == Iso(4 - a.rotation, VNeg(Rotate(4 - a.rotation, a.translation)))
TransformPoint(a, p) == VAdd(Rotate(a.rotation, p), a.translation)
InverseTransformPoint(a, p) == Rotate(4 - a.rotation, VSub(p, a.translation))
\* UnitComplex::angle(), in quarter turns, in (-2, 2]
Angle(q) == IF q % 4 = 3 THEN -1 ELSE q % 4

Dynamic == "Dynamic"
Static == "Static"
Kinematic == "Kinematic"
BodyStatus == {Dynamic, Static, Kinematic}

-----------------------------------------------------------------------------
(* ActivationStatus *)

\* ActivationStatus::default_threshold(): 0.01, in units of 0.01
default_threshold == 1

new_active ==
    [threshold |-> default_threshold,
     energy    |-> default_threshold * 4,
     sleeping  |-> FALSE]

\* ActivationStatus::is_active
is_active(a) == a.energy # 0

-----------------------------------------------------------------------------
(* MassProperties (parry): the fields the body reads *)

MassPropertiesZero ==
    [inv_mass |-> 0, inv_principal_inertia_sqrt |-> 0, local_com |-> Zero2]

\* utils::inv: 1 / x, and 0 for x = 0 (exact on the inverse masses 0 and 1)
inv(x) == IF x = 0 THEN 0 ELSE 1 \div x

-----------------------------------------------------------------------------
(* RigidBody *)

\* RigidBody::new
RigidBodyNew ==
    [position       |-> Identity,
     next_position  |-> Identity,
     mass_properties |-> MassPropertiesZero,
     world_com      |-> Zero2,
     effective_inv_mass |-> 0,
     effective_world_inv_inertia_sqrt |-> 0,
     linvel         |-> Zero2,
     angvel         |-> 0,
     force          |-> Zero2,
     torque         |-> 0,
     gravity_scale  |-> 1,
     colliders      |-> <<>>,
     activation     |-> new_active,
     active_set_offset |-> 0,
     flags          |-> {},
     changes        |-> {"MODIFIED", "POSITION", "SLEEP", "COLLIDERS", "BODY_STATUS"},
     body_status    |-> Dynamic,
     ccd_thickness  |-> REAL_MAX,
     ccd_max_dist   |-> 0]

is_dynamic(r) == r.body_status = Dynamic
is_kinematic(r) == r.body_status = Kinematic
is_static(r) == r.body_status = Static
is_sleeping(r) == r.activation.sleeping
is_ccd_enabled(r) == "CCD_ENABLED" \in r.flags
is_ccd_active(r) == "CCD_ACTIVE" \in r.flags
mass(r) == inv(r.mass_properties.inv_mass)

\* bitflags set(flag, value)
FlagSet(flags, f, value) == IF value THEN flags \cup {f} ELSE flags \ {f}

enable_ccd(r, enabled) ==
    [r EXCEPT !.flags = FlagSet(@, "CCD_ENABLED", enabled)]

\* sleep that forgets the angular velocity
sleep_KeepsAngvel(r) ==
    [r EXCEPT !.activation.energy = 0,
              !.activation.sleeping = TRUE,
              !.linvel = Zero2]

sleep(r) ==
    [r EXCEPT !.activation.energy = 0,
              !.activation.sleeping = TRUE,
              !.linvel = Zero2,
              !.angvel = 0]

\* wake_up that resets the energy only when it is zero, ignoring `strong`
wake_up_IgnoresStrong(r, strong) ==
    LET r1 == IF r.activation.sleeping
              THEN [r EXCEPT !.changes = @ \cup {"SLEEP"},
                             !.activation.sleeping = FALSE]
              ELSE r
    IN  IF r1.activation.energy = 0 /\ r1.body_status = "Dynamic"
        THEN [r1 EXCEPT !.activation.energy = Abs(r1.activation.threshold) * 2]
        ELSE r1

wake_up(r, strong) ==
    LET r1 == IF r.activation.sleeping
              THEN [r EXCEPT !.changes = @ \cup {"SLEEP"},
                             !.activation.sleeping = FALSE]
              ELSE r
    IN  IF (strong \/ r1.activation.energy = 0) /\ is_dynamic(r1)
        THEN [r1 EXCEPT !.activation.energy = Abs(r1.activation.threshold) * 2]
        ELSE r1

\* mix_factor = 0.01: (99 * energy + 1 * v^2) / 100, v^2 = 100 units per (m/s)^2
update_energy(r) ==
    LET sq == NormSquared(r.linvel) + r.angvel * r.angvel
        new_energy == RoundDiv(99 * r.activation.energy + 100 * sq, 100)
    IN  [r EXCEPT !.activation.energy =
                     Min(new_energy, Abs(r.activation.threshold) * 4)]

update_world_mass_properties(r) ==
    LET r1 == [r EXCEPT
                 !.world_com = TransformPoint(r.position, r.mass_properties.local_com),
                 !.effective_inv_mass = r.mass_properties.inv_mass,
                 !.effective_world_inv_inertia_sqrt =
                     r.mass_properties.inv_principal_inertia_sqrt]
        r2 == IF "TRANSLATION_LOCKED" \in r.flags
              THEN [r1 EXCEPT !.effective_inv_mass = 0] ELSE r1
    IN  IF "ROTATION_LOCKED_Z" \in r.flags
        THEN [r2 EXCEPT !.effective_world_inv_inertia_sqrt = 0] ELSE r2

set_body_status(r, status) ==
    IF status # r.body_status
    THEN [r EXCEPT !.changes = @ \cup {"BODY_STATUS"}, !.body_status = status]
    ELSE r

set_gravity_scale(r, scale, wake) ==
    LET r1 == IF wake /\ r.activation.sleeping
              THEN [r EXCEPT !.changes = @ \cup {"SLEEP"},
                             !.activation.sleeping = FALSE]
              ELSE r
    IN  [r1 EXCEPT !.gravity_scale = scale]

\* set_linvel that never wakes the body
set_linvel_NeverWakes(r, linvel, wake) == [r EXCEPT !.linvel = linvel]

set_linvel(r, linvel, wake) ==
    LET r1 == [r EXCEPT !.linvel = linvel]
    IN  IF is_dynamic(r1) /\ wake THEN wake_up(r1, TRUE) ELSE r1

set_angvel(r, angvel, wake) ==
    LET r1 == [r EXCEPT !.angvel = angvel]
    IN  IF is_dynamic(r1) /\ wake THEN wake_up(r1, TRUE) ELSE r1

add_gravity(r, gravity) ==
    IF r.effective_inv_mass # 0
    THEN [r EXCEPT !.force = VAdd(@, VScale(VScale(gravity, r.gravity_scale), mass(r)))]
    ELSE r

\* integrate_accelerations with the inverse mass of mass_properties where the
\* code has the effective one
integrate_accelerations_RawMass(r, dt) ==
    LET linear_acc == VScale(r.force, r.mass_properties.inv_mass)
        angular_acc == r.effective_world_inv_inertia_sqrt
                         * (r.effective_world_inv_inertia_sqrt * r.torque)
    IN  [r EXCEPT !.linvel = VAdd(@, VScale(linear_acc, dt)),
                  !.angvel = @ + angular_acc * dt]

integrate_accelerations(r, dt) ==
    LET linear_acc == VScale(r.force, r.effective_inv_mass)
        angular_acc == r.effective_world_inv_inertia_sqrt
                         * (r.effective_world_inv_inertia_sqrt * r.torque)
    IN  [r EXCEPT !.linvel = VAdd(@, VScale(linear_acc, dt)),
                  !.angvel = @ + angular_acc * dt]

compute_velocity_from_next_position(r, inv_dt) ==
    LET dpos == IsoMul(r.next_position, IsoInverse(r.position))
    IN  [r EXCEPT !.angvel = Angle(dpos.rotation) * inv_dt,
                  !.linvel = VScale(dpos.translation, inv_dt)]

-----------------------------------------------------------------------------
(* Applying forces, torques and impulses *)

apply_force(r, force, wake) ==
    IF r.body_status = Dynamic
    THEN LET r1 == [r EXCEPT !.force = VAdd(@, force)]
         IN  IF wake THEN wake_up(r1, TRUE) ELSE r1
    ELSE r

\* apply_torque without the test of the body status
apply_torque_AnyStatus(r, torque, wake) ==
    LET r1 == [r EXCEPT !.torque = @ + torque]
    IN  IF wake THEN wake_up(r1, TRUE) ELSE r1

apply_torque(r, torque, wake) ==
    IF r.body_status = Dynamic
    THEN LET r1 == [r EXCEPT !.torque = @ + torque]
         IN  IF wake THEN wake_up(r1, TRUE) ELSE r1
    ELSE r

apply_force_at_point(r, force, point, wake) ==
    IF r.body_status = Dynamic
    THEN LET r1 == [r EXCEPT !.force = VAdd(@, force),
                             !.torque = @ + GCross(VSub(point, r.world_com), force)]
         IN  IF wake THEN wake_up(r1, TRUE) ELSE r1
    ELSE r

apply_impulse(r, impulse, wake) ==
    IF r.body_status = Dynamic
    THEN LET r1 == [r EXCEPT !.linvel = VAdd(@, VScale(impulse, r.effective_inv_mass))]
         IN  IF wake THEN wake_up(r1, TRUE) ELSE r1
    ELSE r

apply_torque_impulse(r, torque_impulse, wake) ==
    IF r.body_status = Dynamic
    THEN LET r1 == [r EXCEPT !.angvel = @ + r.effective_world_inv_inertia_sqrt
                                 * (r.effective_world_inv_inertia_sqrt * torque_impulse)]
         IN  IF wake THEN wake_up(r1, TRUE) ELSE r1
    ELSE r

apply_impulse_at_point(r, impulse, point, wake) ==
    LET torque_impulse == GCross(VSub(point, r.world_com), impulse)
    IN  apply_torque_impulse(apply_impulse(r, impulse, wake), torque_impulse, wake)

-----------------------------------------------------------------------------
(* RigidBodyBuilder *)

\* RigidBodyBuilder::build, from the builder's fields b
build(b) ==
    LET rb0 == [RigidBodyNew EXCEPT
                  !.next_position = b.position,
                  !.position = b.position,
                  !.linvel = b.linvel,
                  !.angvel = b.angvel,
                  !.body_status = b.body_status,
                  !.mass_properties = b.mass_properties,
                  !.gravity_scale = b.gravity_scale,
                  !.flags = b.flags]
        rb1 == enable_ccd(rb0, b.ccd_enabled)
        rb2 == IF b.can_sleep /\ b.sleeping THEN sleep(rb1) ELSE rb1
    IN  IF ~b.can_sleep
        THEN [rb2 EXCEPT !.activation.threshold = -100]   \* -1.0
        ELSE rb2

\* RigidBodyBuilder::new(body_status)
BuilderNew(body_status) ==
    [position |-> Identity, linvel |-> Zero2, angvel |-> 0, gravity_scale |-> 1,
     body_status |-> body_status, flags |-> {}, mass_properties |-> MassPropertiesZero,
     can_sleep |-> TRUE, sleeping |-> FALSE, ccd_enabled |-> FALSE]

-----------------------------------------------------------------------------
(* Inputs of the exploration *)

Range(n) == (-n) .. n
Vectors(n) == {<<x, y>> : x \in Range(n), y \in Range(n)}
InRange(x, n) == -n <= x /\ x <= n
VInRange(v, n) == InRange(v[1], n) /\ InRange(v[2], n)

\* vectors passed as arguments (velocities, forces, impulses, gravity)
VecArgs == {<<0, 0>>, <<1, 0>>, <<0, -1>>}
\* scalars passed as arguments (angular velocity, torque, torque impulse)
AngArgs == {0, 1}
\* timesteps
DtArgs == {1, 2}

NoConstraint == [num_contacts |-> 0]
NoParams == [allowed_linear_error |-> 0]
NoManifold == [num_active_contacts |-> 0]

\* the operation that returned last: its name, its boolean argument (wake_up,
\* strong, include_forces, ...) and its timestep argument
Op(name, flag, dt) == [op |-> name, flag |-> flag, dt |-> dt]

\* the body becomes r; the solver's state is left alone
Body(r, name, flag, dt) ==
    /\ rb' = r
    /\ last' = Op(name, flag, dt)
    /\ UNCHANGED <<positions, constraint, params, contact_manifold>>

-----------------------------------------------------------------------------
(* Operations of RigidBody as actions *)

Sleep == Body(sleep(rb), "sleep", FALSE, 0)

WakeUp(strong) == Body(wake_up(rb, strong), "wake_up", strong, 0)

SetLinvel(v, wake) == Body(set_linvel(rb, v, wake), "set_linvel", wake, 0)

SetAngvel(a, wake) == Body(set_angvel(rb, a, wake), "set_angvel", wake, 0)

SetGravityScale(s, wake) ==
    Body(set_gravity_scale(rb, s, wake), "set_gravity_scale", wake, 0)

SetBodyStatus(status) == Body(set_body_status(rb, status), "set_body_status", FALSE, 0)

UpdateEnergy ==
    /\ rb.activation.energy <= MaxEnergy
    /\ Body(update_energy(rb), "update_energy", FALSE, 0)

UpdateWorldMassProperties ==
    Body(update_world_mass_properties(rb), "update_world_mass_properties", FALSE, 0)

ApplyImpulse(i, wake) ==
    /\ VInRange(apply_impulse(rb, i, wake).linvel, MaxVel)
    /\ Body(apply_impulse(rb, i, wake), "apply_impulse", wake, 0)

ApplyTorqueImpulse(t, wake) ==
    /\ InRange(apply_torque_impulse(rb, t, wake).angvel, MaxVel)
    /\ Body(apply_torque_impulse(rb, t, wake), "apply_torque_impulse", wake, 0)

IntegrateAccelerations(dt) ==
    /\ VInRange(integrate_accelerations(rb, dt).linvel, MaxVel)
    /\ InRange(integrate_accelerations(rb, dt).angvel, MaxVel)
    /\ Body(integrate_accelerations(rb, dt), "integrate_accelerations", FALSE, dt)

ComputeVelocityFromNextPosition(inv_dt) ==
    Body(compute_velocity_from_next_position(rb, inv_dt),
         "compute_velocity_from_next_position", FALSE, inv_dt)

-----------------------------------------------------------------------------
(* Spec: sleeping, waking and the velocities *)

\* the builders the exploration starts from: any status, any velocity, with or
\* without mass, asleep or not, able to sleep or not
ActivationBuilders ==
    {[BuilderNew(s) EXCEPT
        !.linvel = v, !.angvel = a, !.can_sleep = cs, !.sleeping = sl,
        !.mass_properties = [MassPropertiesZero EXCEPT
                               !.inv_mass = 1, !.inv_principal_inertia_sqrt = 1]] :
        s \in BodyStatus, v \in {<<0, 0>>, <<1, 0>>}, a \in {0, 1},
        cs \in BOOLEAN, sl \in BOOLEAN}

Init ==
    /\ rb \in {build(b) : b \in ActivationBuilders}
    /\ last = Op("build", FALSE, 0)
    /\ positions = <<>>
    /\ constraint = NoConstraint
    /\ params = NoParams
    /\ contact_manifold = NoManifold

Next ==
    \/ Sleep
    \/ \E strong \in BOOLEAN : WakeUp(strong)
    \/ \E v \in VecArgs, wake \in BOOLEAN : SetLinvel(v, wake)
    \/ \E a \in AngArgs, wake \in BOOLEAN : SetAngvel(a, wake)
    \/ \E i \in VecArgs, wake \in BOOLEAN : ApplyImpulse(i, wake)
    \/ \E t \in AngArgs, wake \in BOOLEAN : ApplyTorqueImpulse(t, wake)
    \/ \E dt \in DtArgs : IntegrateAccelerations(dt)
    \/ UpdateEnergy
    \/ \E s \in {1, 2}, wake \in BOOLEAN : SetGravityScale(s, wake)
    \/ \E inv_dt \in DtArgs : ComputeVelocityFromNextPosition(inv_dt)
    \/ UpdateWorldMassProperties

Spec == Init /\ [][Next]_vars

-----------------------------------------------------------------------------
(* Claims about sleeping and waking, under Spec *)

\* a sleeping body has no energy and does not move
SleepInvariant ==
    is_sleeping(rb) =>
        /\ rb.activation.energy = 0
        /\ rb.linvel = Zero2
        /\ rb.angvel = 0

\* C2, as stated: in every state reachable by sleep, wake_up, set_linvel,
\* set_angvel, apply_impulse, apply_torque_impulse, integrate_accelerations,
\* update_energy, set_gravity_scale and compute_velocity_from_next_position,
\* with any wake_up argument, a sleeping body has energy 0 and zero velocities.
C2_SleepingImpliesAtRest == SleepInvariant

\* a velocity write that leaves a sleeping body asleep: set_linvel / set_angvel
\* with wake_up = false or on a non-dynamic body, apply_impulse /
\* apply_torque_impulse with wake_up = false (rb is the body before the call)
UnwokenVelocityWrite ==
    \/ last'.op \in {"set_linvel", "set_angvel"} /\ (~last'.flag \/ ~is_dynamic(rb))
    \/ last'.op \in {"apply_impulse", "apply_torque_impulse"} /\ ~last'.flag

\* C2, amended: a built body satisfies "sleeping implies energy 0 and zero
\* velocities", and every operation of the list keeps it, except a velocity
\* write that does not wake the body.
C2_SleepInvariantKeptUnlessUnwokenWrite ==
    /\ SleepInvariant
    /\ [][(SleepInvariant /\ ~UnwokenVelocityWrite) => SleepInvariant']_vars

\* C2's case: a velocity was written with wake_up = true into a dynamic body
\* that had been put to sleep, and the body is awake and moving
C2_Witness ==
    /\ last.op = "set_linvel" /\ last.flag
    /\ is_dynamic(rb) /\ ~is_sleeping(rb)
    /\ rb.linvel # Zero2
    /\ rb.activation.energy = 2 * rb.activation.threshold

\* C4: for every body in any state, right after sleep() returns linvel and
\* angvel are zero, the energy is zero and is_sleeping() is true.
C4_SleepZeroesEverything ==
    last.op = "sleep" =>
        /\ rb.linvel = Zero2
        /\ rb.angvel = 0
        /\ rb.activation.energy = 0
        /\ is_sleeping(rb)

\* C4's case: sleep() was called on a kinematic body that can never sleep
C4_Witness ==
    /\ last.op = "sleep"
    /\ is_kinematic(rb)
    /\ rb.activation.threshold < 0
    /\ is_sleeping(rb)

\* C5, as stated: right after wake_up(true) on a Dynamic body, with any
\* threshold (the negative one of a body that can never sleep included),
\* is_sleeping() is false and energy == 2 * threshold.
C5_WakeUpEnergyTwiceThreshold ==
    (last.op = "wake_up" /\ last.flag /\ is_dynamic(rb)) =>
        /\ ~is_sleeping(rb)
        /\ rb.activation.energy = 2 * rb.activation.threshold

\* C5, amended: right after wake_up(true) on a Dynamic body is_sleeping() is
\* false and energy == 2 * |threshold|.
C5_WakeUpEnergyTwiceAbsThreshold ==
    (last.op = "wake_up" /\ last.flag /\ is_dynamic(rb)) =>
        /\ ~is_sleeping(rb)
        /\ rb.activation.energy = 2 * Abs(rb.activation.threshold)

\* C5's case: wake_up(true) returned on a dynamic body that can never sleep
C5_Witness ==
    /\ last.op = "wake_up" /\ last.flag
    /\ is_dynamic(rb)
    /\ rb.activation.threshold < 0
    /\ rb.activation.energy = 200

-----------------------------------------------------------------------------
(* SpecForce: forces, torques, impulses and gravity *)

\* world-space points forces and impulses are applied at
PointArgs == {<<0, 0>>, <<1, 0>>}

ApplyForce(f, wake) ==
    /\ VInRange(apply_force(rb, f, wake).force, MaxForce)
    /\ Body(apply_force(rb, f, wake), "apply_force", wake, 0)

ApplyTorque(t, wake) ==
    /\ InRange(apply_torque(rb, t, wake).torque, MaxForce)
    /\ Body(apply_torque(rb, t, wake), "apply_torque", wake, 0)

ApplyForceAtPoint(f, p, wake) ==
    /\ VInRange(apply_force_at_point(rb, f, p, wake).force, MaxForce)
    /\ InRange(apply_force_at_point(rb, f, p, wake).torque, MaxForce)
    /\ Body(apply_force_at_point(rb, f, p, wake), "apply_force_at_point", wake, 0)

ApplyImpulseAtPoint(i, p, wake) ==
    /\ VInRange(apply_impulse_at_point(rb, i, p, wake).linvel, MaxVel)
    /\ InRange(apply_impulse_at_point(rb, i, p, wake).angvel, MaxVel)
    /\ Body(apply_impulse_at_point(rb, i, p, wake), "apply_impulse_at_point", wake, 0)

AddGravity(g) ==
    /\ VInRange(add_gravity(rb, g).force, MaxForce)
    /\ Body(add_gravity(rb, g), "add_gravity", FALSE, 0)

\* the builders SpecForce starts from: any status, at rest, with no mass or
\* with unit mass and inertia, asleep or not
ForceBuilders ==
    {[BuilderNew(s) EXCEPT
        !.sleeping = sl, !.flags = fl,
        !.mass_properties = [MassPropertiesZero EXCEPT
                               !.inv_mass = im, !.inv_principal_inertia_sqrt = im]] :
        s \in BodyStatus, sl \in BOOLEAN, im \in {0, 1},
        fl \in {{}, {"TRANSLATION_LOCKED"}}}

InitForce ==
    /\ rb \in {build(b) : b \in ForceBuilders}
    /\ last = Op("build", FALSE, 0)
    /\ positions = <<>>
    /\ constraint = NoConstraint
    /\ params = NoParams
    /\ contact_manifold = NoManifold

NextForce ==
    \/ \E f \in VecArgs, wake \in BOOLEAN : ApplyForce(f, wake)
    \/ \E t \in AngArgs, wake \in BOOLEAN : ApplyTorque(t, wake)
    \/ \E f \in VecArgs, p \in PointArgs, wake \in BOOLEAN : ApplyForceAtPoint(f, p, wake)
    \/ \E i \in VecArgs, wake \in BOOLEAN : ApplyImpulse(i, wake)
    \/ \E t \in AngArgs, wake \in BOOLEAN : ApplyTorqueImpulse(t, wake)
    \/ \E i \in VecArgs, p \in PointArgs, wake \in BOOLEAN : ApplyImpulseAtPoint(i, p, wake)
    \/ \E g \in VecArgs : AddGravity(g)
    \/ \E dt \in DtArgs : IntegrateAccelerations(dt)
    \/ UpdateWorldMassProperties

SpecForce == InitForce /\ [][NextForce]_vars

\* the six mutators of the "Applying forces / impulses" impl blocks
ApplyOps ==
    {"apply_force", "apply_torque", "apply_force_at_point",
     "apply_impulse", "apply_torque_impulse", "apply_impulse_at_point"}

\* C1: on a Static or Kinematic body, for every argument and either value of
\* wake_up, each of the six apply_* operations leaves the whole body unchanged
\* (force, torque, linvel, angvel, activation, change flags and all the rest).
C1_ApplyIsNoOpOnNonDynamic ==
    [][(last'.op \in ApplyOps /\ ~is_dynamic(rb)) => rb' = rb]_vars

\* C1's case: apply_torque(t, true) returned on a sleeping kinematic body with
\* mass, whose cached inverse mass is up to date
C1_Witness ==
    /\ last.op = "apply_torque" /\ last.flag
    /\ is_kinematic(rb)
    /\ is_sleeping(rb)
    /\ rb.effective_inv_mass = 1

\* C6: a Static or Kinematic body never receives a force: whatever its mass
\* properties, add_gravity leaves its force unchanged (so it stays zero, as
\* built), and integrate_accelerations then leaves linvel and angvel unchanged.
C6_NonDynamicNeverReceivesForce ==
    ~is_dynamic(rb) => (rb.force = Zero2 /\ rb.linvel = Zero2 /\ rb.angvel = 0)

\* C14: on a Dynamic body whose effective_inv_mass is 0, apply_impulse leaves
\* linvel unchanged for every impulse, and integrate_accelerations leaves it
\* unchanged for every force accumulated by apply_force and every dt.
C14_NoLinearMotionWithoutInverseMass ==
    [][(/\ is_dynamic(rb)
        /\ rb.effective_inv_mass = 0
        /\ last'.op \in {"apply_impulse", "integrate_accelerations"})
          => rb'.linvel = rb.linvel]_vars

\* a Dynamic body with mass, translation locked, its force not zero, after
\* integrate_accelerations
C14_Witness ==
    /\ is_dynamic(rb)
    /\ rb.effective_inv_mass = 0
    /\ rb.mass_properties.inv_mass # 0
    /\ "TRANSLATION_LOCKED" \in rb.flags
    /\ rb.force # Zero2
    /\ rb.effective_world_inv_inertia_sqrt # 0
    /\ last.op = "integrate_accelerations"

-----------------------------------------------------------------------------
(* Poses, mass properties and colliders *)

set_position(r, pos, wake) ==
    LET r1 == [r EXCEPT !.changes = @ \cup {"POSITION"},
                        !.position = pos,
                        !.next_position = pos]
    IN  IF wake /\ is_dynamic(r1) THEN wake_up(r1, TRUE) ELSE r1

set_mass_properties(r, props, wake) ==
    LET r1 == IF is_dynamic(r) /\ wake THEN wake_up(r, TRUE) ELSE r
    IN  update_world_mass_properties([r1 EXCEPT !.mass_properties = props])

set_translation_locked(r, lock) ==
    update_world_mass_properties(
        [r EXCEPT !.flags = FlagSet(@, "TRANSLATION_LOCKED", lock)])

\* set_rotation_locked (dim2)
set_rotation_locked(r, lock) ==
    update_world_mass_properties(
        [r EXCEPT !.flags = FlagSet(@, "ROTATION_LOCKED_Z", lock)])

\* shift * Isometry::new(linvel * dt, angvel * dt) * shift.inverse()
integrate_velocity(r, dt) ==
    LET com == TransformPoint(r.position, r.mass_properties.local_com)
        shift == Iso(0, com)
    IN  IsoMul(IsoMul(shift, Iso(r.angvel * dt, VScale(r.linvel, dt))),
               IsoInverse(shift))

\* renormalize_fast leaves an exact rotation as it is
integrate_next_position(r, dt) ==
    [r EXCEPT !.next_position = IsoMul(integrate_velocity(r, dt), r.position)]

\* MassProperties::is_zero
MassIsZero(mp) == mp.inv_mass = 0 /\ mp.inv_principal_inertia_sqrt = 0

\* MassProperties + MassProperties, where one operand is zero (the sum of two
\* massive operands is not followed: see CanAddMass)
AddMass(a, b) == IF MassIsZero(a) THEN b ELSE a
CanAddMass(a, b) == MassIsZero(a) \/ MassIsZero(b)

\* MassProperties - MassProperties, where one operand is zero or both are equal
SubMass(a, b) ==
    IF MassIsZero(a) \/ MassIsZero(b) THEN a ELSE MassPropertiesZero
CanSubMass(a, b) == MassIsZero(a) \/ MassIsZero(b) \/ a = b

\* MassProperties::transform_by(delta): the center of mass moves with delta
TransformMass(mp, delta) ==
    [mp EXCEPT !.local_com = TransformPoint(delta, mp.local_com)]

\* the colliders of the exploration, by handle: a ball of the given radius,
\* attached at `delta` (position_wrt_parent), with its own mass properties
Colliders ==
    [h \in {1, 2} |->
        IF h = 1
        THEN [radius |-> 10, delta |-> Iso(0, <<1, 0>>),
              mass_properties |-> [inv_mass |-> 1, inv_principal_inertia_sqrt |-> 1,
                                   local_com |-> Zero2]]
        ELSE [radius |-> 20, delta |-> Iso(0, <<0, -2>>),
              mass_properties |-> MassPropertiesZero]]

\* Shape::ccd_thickness of a ball
ShapeCcdThickness(coll) == coll.radius
\* norm of the bounding sphere's center (the attachment points are axis-aligned)
\* plus its radius
BSphereReach(coll) ==
    Abs(coll.delta.translation[1]) + Abs(coll.delta.translation[2]) + coll.radius

add_collider(r, handle, coll) ==
    LET mass_properties == TransformMass(coll.mass_properties, coll.delta)
    IN  update_world_mass_properties(
            [r EXCEPT !.changes = @ \cup {"MODIFIED", "COLLIDERS"},
                      !.ccd_thickness = Min(@, ShapeCcdThickness(coll)),
                      !.ccd_max_dist = Max(@, BSphereReach(coll)),
                      !.colliders = Append(@, handle),
                      !.mass_properties = AddMass(@, mass_properties)])

\* Vec::swap_remove(i)
SwapRemove(seq, i) ==
    LET n == Len(seq)
    IN  [k \in 1 .. (n - 1) |-> IF k = i THEN seq[n] ELSE seq[k]]

remove_collider_internal(r, handle, coll) ==
    IF \E i \in 1 .. Len(r.colliders) : r.colliders[i] = handle
    THEN LET i == CHOOSE i \in 1 .. Len(r.colliders) :
                    /\ r.colliders[i] = handle
                    /\ \A j \in 1 .. (i - 1) : r.colliders[j] # handle
             mass_properties == TransformMass(coll.mass_properties, coll.delta)
         IN  update_world_mass_properties(
                 [r EXCEPT !.changes = @ \cup {"COLLIDERS"},
                           !.colliders = SwapRemove(@, i),
                           !.mass_properties = SubMass(@, mass_properties)])
    ELSE r

-----------------------------------------------------------------------------
(* SpecMass: the mutators that the cached world-space mass properties follow *)

PoseArgs == {Identity, Iso(0, <<1, 0>>), Iso(1, <<0, -1>>)}
MassArgs ==
    {MassPropertiesZero,
     [inv_mass |-> 1, inv_principal_inertia_sqrt |-> 1, local_com |-> <<0, 1>>]}

SetPosition(pos, wake) == Body(set_position(rb, pos, wake), "set_position", wake, 0)

SetMassProperties(props, wake) ==
    Body(set_mass_properties(rb, props, wake), "set_mass_properties", wake, 0)

SetTranslationLocked(lock) ==
    Body(set_translation_locked(rb, lock), "set_translation_locked", lock, 0)

SetRotationLocked(lock) ==
    Body(set_rotation_locked(rb, lock), "set_rotation_locked", lock, 0)

IntegrateNextPosition(dt) ==
    Body(integrate_next_position(rb, dt), "integrate_next_position", FALSE, dt)

IsAttached(h) == \E i \in 1 .. Len(rb.colliders) : rb.colliders[i] = h

AddCollider(h) ==
    /\ ~IsAttached(h)
    /\ CanAddMass(rb.mass_properties,
                  TransformMass(Colliders[h].mass_properties, Colliders[h].delta))
    /\ Body(add_collider(rb, h, Colliders[h]), "add_collider", FALSE, 0)

RemoveColliderInternal(h) ==
    /\ CanSubMass(rb.mass_properties,
                  TransformMass(Colliders[h].mass_properties, Colliders[h].delta))
    /\ Body(remove_collider_internal(rb, h, Colliders[h]),
            "remove_collider_internal", FALSE, 0)

\* the builders SpecMass starts from: any status, pose, velocity, mass and locks
MassBuilders ==
    {[BuilderNew(s) EXCEPT
        !.position = pos, !.linvel = v, !.angvel = a, !.mass_properties = mp,
        !.flags = fl] :
        s \in {Dynamic, Static}, pos \in {Identity, Iso(1, <<0, -1>>)},
        v \in {<<1, 0>>}, a \in {1}, mp \in MassArgs,
        fl \in {{}, {"TRANSLATION_LOCKED"}, {"ROTATION_LOCKED_Z"}}}

InitMass ==
    /\ rb \in {build(b) : b \in MassBuilders}
    /\ last = Op("build", FALSE, 0)
    /\ positions = <<>>
    /\ constraint = NoConstraint
    /\ params = NoParams
    /\ contact_manifold = NoManifold

NextMass ==
    \/ \E pos \in PoseArgs, wake \in BOOLEAN : SetPosition(pos, wake)
    \/ \E mp \in MassArgs, wake \in BOOLEAN : SetMassProperties(mp, wake)
    \/ \E lock \in BOOLEAN : SetTranslationLocked(lock)
    \/ \E lock \in BOOLEAN : SetRotationLocked(lock)
    \/ \E dt \in DtArgs : IntegrateNextPosition(dt)
    \/ \E h \in DOMAIN Colliders : AddCollider(h)
    \/ \E h \in DOMAIN Colliders : RemoveColliderInternal(h)

SpecMass == InitMass /\ [][NextMass]_vars

\* the cached fields equal what update_world_mass_properties would compute
CacheIsFresh ==
    LET fresh == update_world_mass_properties(rb)
    IN  /\ rb.world_com = fresh.world_com
        /\ rb.effective_inv_mass = fresh.effective_inv_mass
        /\ rb.effective_world_inv_inertia_sqrt = fresh.effective_world_inv_inertia_sqrt

\* C3: after any of set_position, set_mass_properties, set_translation_locked,
\* set_rotation_locked, add_collider, remove_collider_internal,
\* integrate_next_position and RigidBodyBuilder::build returns, world_com,
\* effective_inv_mass and effective_world_inv_inertia_sqrt equal the values
\* update_world_mass_properties would compute from the current position, mass
\* properties and lock flags.
C3_CacheNeverStale ==
    last.op \in {"build", "set_position", "set_mass_properties",
                 "set_translation_locked", "set_rotation_locked", "add_collider",
                 "remove_collider_internal", "integrate_next_position"}
        => CacheIsFresh

\* C23: after any sequence of add_collider and remove_collider_internal,
\* ccd_thickness is the minimum ccd thickness over the shapes of the colliders
\* attached to the body (Real::MAX when there is none) and ccd_max_dist the
\* maximum bounding-sphere reach over them (0 when there is none).
C23_CcdFieldsFollowColliders ==
    LET attached == {rb.colliders[i] : i \in 1 .. Len(rb.colliders)}
        thickness == {ShapeCcdThickness(Colliders[h]) : h \in attached}
        reach == {BSphereReach(Colliders[h]) : h \in attached}
    IN  /\ rb.ccd_thickness =
              IF attached = {} THEN REAL_MAX
              ELSE CHOOSE t \in thickness : \A u \in thickness : t <= u
        /\ rb.ccd_max_dist =
              IF attached = {} THEN 0
              ELSE CHOOSE d \in reach : \A e \in reach : d >= e

-----------------------------------------------------------------------------
(* The CCD activation heuristic *)

\* sqrt(sq) + b > t, for sq >= 0, decided on the squares
NormPlusGt(sq, b, t) == IF t - b < 0 THEN TRUE ELSE sq > (t - b) * (t - b)

\* max_point_velocity: linvel.norm() + angvel.abs() * ccd_max_dist, kept as the
\* square of the first term and the second term
max_point_velocity(r) ==
    [linear_sq |-> NormSquared(r.linvel),
     angular   |-> Abs(r.angvel) * r.ccd_max_dist]

\* is_moving_fast that compares one velocity component instead of the norm
is_moving_fast_FirstComponent(r, dt, include_forces) ==
    IF r.body_status = "Dynamic"
    THEN IF include_forces
         THEN 10 * (Abs(r.linvel[1] + r.force[1] * dt)
                    + Abs(r.angvel + r.torque * dt) * r.ccd_max_dist) > r.ccd_thickness
         ELSE 10 * dt * (Abs(r.linvel[1]) + Abs(r.angvel) * r.ccd_max_dist)
                  > r.ccd_thickness
    ELSE FALSE

\* threshold = ccd_thickness / 10; each comparison is multiplied by 10
is_moving_fast(r, dt, include_forces) ==
    IF is_dynamic(r)
    THEN IF include_forces
         THEN LET linear_sq == NormSquared(VAdd(r.linvel, VScale(r.force, dt)))
                  angular_part == Abs(r.angvel + r.torque * dt) * r.ccd_max_dist
              IN  NormPlusGt(100 * linear_sq, 10 * angular_part, r.ccd_thickness)
         ELSE LET mpv == max_point_velocity(r)
              IN  NormPlusGt(100 * dt * dt * mpv.linear_sq, 10 * dt * mpv.angular,
                             r.ccd_thickness)
    ELSE FALSE

update_ccd_active_flag(r, dt, include_forces) ==
    LET ccd_active == is_ccd_enabled(r) /\ is_moving_fast(r, dt, include_forces)
    IN  [r EXCEPT !.flags = FlagSet(@, "CCD_ACTIVE", ccd_active)]

-----------------------------------------------------------------------------
(* SpecCcd: CCD enabling and activation *)

EnableCcd(enabled) == Body(enable_ccd(rb, enabled), "enable_ccd", enabled, 0)

UpdateCcdActiveFlag(dt, include_forces) ==
    Body(update_ccd_active_flag(rb, dt, include_forces),
         "update_ccd_active_flag", include_forces, dt)

\* the bodies SpecCcd starts from: built with any status, CCD enabled or not,
\* then given one collider
InitCcd ==
    /\ rb \in {add_collider(build([BuilderNew(s) EXCEPT !.ccd_enabled = en]),
                            h, Colliders[h]) :
                 s \in BodyStatus, en \in BOOLEAN, h \in DOMAIN Colliders}
    /\ last = Op("add_collider", FALSE, 0)
    /\ positions = <<>>
    /\ constraint = NoConstraint
    /\ params = NoParams
    /\ contact_manifold = NoManifold

NextCcd ==
    \/ \E en \in BOOLEAN : EnableCcd(en)
    \/ \E dt \in DtArgs, include_forces \in BOOLEAN :
          UpdateCcdActiveFlag(dt, include_forces)
    \/ \E s \in BodyStatus : SetBodyStatus(s)
    \/ \E v \in Vectors(1) : SetLinvel(v, FALSE)
    \/ \E a \in AngArgs : SetAngvel(a, FALSE)
    \/ \E f \in VecArgs : ApplyForce(f, FALSE)
    \/ \E t \in AngArgs : ApplyTorque(t, FALSE)

SpecCcd == InitCcd /\ [][NextCcd]_vars

\* the linear velocities the monotonicity claim compares with
OtherVelocities == Vectors(MaxVel + 1)

\* the flag update_ccd_active_flag(dt, include_forces) would set on the same
\* body moving at linear velocity v
CcdActiveAt(v, dt, include_forces) ==
    is_ccd_active(update_ccd_active_flag([rb EXCEPT !.linvel = v], dt, include_forces))

\* C7, as stated: for a Dynamic, CCD-enabled body and fixed dt, for both values
\* of include_forces, if update_ccd_active_flag made the body CCD-active at
\* linear velocity v, it also does at any v' with |v'| >= |v|.
C7_CcdMonotoneInSpeed ==
    (/\ last.op = "update_ccd_active_flag"
     /\ is_dynamic(rb) /\ is_ccd_enabled(rb)
     /\ is_ccd_active(rb))
    => \A v2 \in OtherVelocities :
          NormSquared(v2) >= NormSquared(rb.linvel)
              => CcdActiveAt(v2, last.dt, last.flag)

\* C7, amended: the same, for include_forces == false, and for
\* include_forces == true when no force is pending (force == 0).
C7_CcdMonotoneInSpeedWithoutForce ==
    (/\ last.op = "update_ccd_active_flag"
     /\ is_dynamic(rb) /\ is_ccd_enabled(rb)
     /\ is_ccd_active(rb)
     /\ (~last.flag \/ rb.force = Zero2))
    => \A v2 \in OtherVelocities :
          NormSquared(v2) >= NormSquared(rb.linvel)
              => CcdActiveAt(v2, last.dt, last.flag)

\* C7's case: the velocity-only estimate made a dynamic body CCD-active through
\* its linear speed alone, while a force is pending
C7_Witness ==
    /\ last.op = "update_ccd_active_flag" /\ ~last.flag
    /\ is_dynamic(rb) /\ is_ccd_enabled(rb) /\ is_ccd_active(rb)
    /\ rb.angvel = 0 /\ rb.linvel # Zero2
    /\ rb.force # Zero2

\* C8: in every state reachable by enable_ccd, update_ccd_active_flag,
\* set_body_status, set_linvel and set_angvel, a Static or Kinematic body is
\* not CCD-active.
C8_NonDynamicNeverCcdActive == ~is_dynamic(rb) => ~is_ccd_active(rb)

\* C27: for a Dynamic, CCD-enabled body with force == 0 and torque == 0 and
\* any dt > 0, update_ccd_active_flag(dt, true) and
\* update_ccd_active_flag(dt, false) set is_ccd_active() to the same value.
C27_CcdModesAgreeWithoutForce ==
    (/\ last.op = "update_ccd_active_flag"
     /\ is_dynamic(rb) /\ is_ccd_enabled(rb)
     /\ rb.force = Zero2 /\ rb.torque = 0)
    => is_ccd_active(rb)
          = is_ccd_active(update_ccd_active_flag(rb, last.dt, ~last.flag))

-----------------------------------------------------------------------------
(* PositionGroundConstraint *)
(*                                                                         *)
(* Lengths are integers (any unit: the solver is homogeneous in the length *)
(* unit); contact normals are axis-aligned unit vectors.  A quotient that  *)
(* is not an integer is rounded to the nearest one.  erp is counted in     *)
(* fifths (0.2 is 1, 1.0 is 5).                                            *)
(*                                                                         *)
(* A pose of the position buffer is                                        *)
(*   [rotation, translation, dtheta, nan, lost]:                           *)
(* rotation in quarter turns, followed by a rotation of dtheta[1] /        *)
(* dtheta[2] radians; nan: the pose is NaN (a division by zero reached     *)
(* it); lost: the model cannot express the pose (a point was transformed   *)
(* by a pose whose dtheta is not zero, or a distance is not an integer).   *)
(***************************************************************************)

\* MAX_MANIFOLD_POINTS (crate::math, dim2)
MAX_MANIFOLD_POINTS == 2
\* the denominator of erp: erp = c.erp / ErpDen
ErpDen == 5

SolverPose(iso) ==
    [rotation |-> iso.rotation, translation |-> iso.translation,
     dtheta |-> <<0, 1>>, nan |-> FALSE, lost |-> FALSE]

PoseIso(pos) == Iso(pos.rotation, pos.translation)

\* chunks(MAX_MANIFOLD_POINTS): the l-th chunk (l from 0) of a sequence
Chunk(seq, l) ==
    SubSeq(seq, l * MAX_MANIFOLD_POINTS + 1,
           Min(Len(seq), (l + 1) * MAX_MANIFOLD_POINTS))
\* the number of full chunks only
NumChunks_Floor(seq) == Len(seq) \div MAX_MANIFOLD_POINTS
\* the number of chunks of chunks(MAX_MANIFOLD_POINTS)
NumChunks(seq) == (Len(seq) + MAX_MANIFOLD_POINTS - 1) \div MAX_MANIFOLD_POINTS

\* a fixed-size array filled from `seq`, the rest left at `default`
Padded(seq, default) ==
    [k \in 1 .. MAX_MANIFOLD_POINTS |-> IF k <= Len(seq) THEN seq[k] ELSE default]

\* generate without the negation of the normal when the roles are swapped
generate_KeepsNormal(gen_params, manifold, bodies) ==
    LET b1 == bodies[manifold.body_pair.body1]
        b2 == bodies[manifold.body_pair.body2]
        flip == ~is_dynamic(b2)
        rb2 == IF flip THEN b1 ELSE b2
        n1 == manifold.normal
        active_contacts ==
            SubSeq(manifold.solver_contacts, 1, manifold.num_active_contacts)
    IN  [l1 \in 1 .. NumChunks(active_contacts) |->
            LET manifold_contacts == Chunk(active_contacts, l1 - 1)
                n == Len(manifold_contacts)
            IN  [variant |->
                    IF manifold.category = "PointPoint"
                    THEN "NongroupedPointPointGround"
                    ELSE "NongroupedPlanePointGround",
                 rb2 |-> rb2.active_set_offset,
                 p1 |-> Padded([k \in 1 .. n |-> manifold_contacts[k].point], Zero2),
                 local_p2 |->
                    Padded([k \in 1 .. n |->
                              InverseTransformPoint(rb2.position,
                                                    manifold_contacts[k].point)],
                           Zero2),
                 n1 |-> n1,
                 dists |-> Padded([k \in 1 .. n |-> manifold_contacts[k].dist], 0),
                 im2 |-> rb2.mass_properties.inv_mass,
                 ii2 |-> rb2.effective_world_inv_inertia_sqrt
                           * rb2.effective_world_inv_inertia_sqrt,
                 num_contacts |-> n,
                 erp |-> gen_params.erp,
                 max_linear_correction |-> gen_params.max_linear_correction]]

\* PositionGroundConstraint::generate: the constraints of one manifold, in
\* chunk order, each with the AnyPositionConstraint variant it is wrapped in
generate(gen_params, manifold, bodies) ==
    LET b1 == bodies[manifold.body_pair.body1]
        b2 == bodies[manifold.body_pair.body2]
        flip == ~is_dynamic(b2)
        rb2 == IF flip THEN b1 ELSE b2
        n1 == IF flip THEN VNeg(manifold.normal) ELSE manifold.normal
        active_contacts ==
            SubSeq(manifold.solver_contacts, 1, manifold.num_active_contacts)
    IN  [l1 \in 1 .. NumChunks(active_contacts) |->
            LET manifold_contacts == Chunk(active_contacts, l1 - 1)
                n == Len(manifold_contacts)
            IN  [variant |->
                    IF manifold.category = "PointPoint"
                    THEN "NongroupedPointPointGround"
                    ELSE "NongroupedPlanePointGround",
                 rb2 |-> rb2.active_set_offset,
                 p1 |-> Padded([k \in 1 .. n |-> manifold_contacts[k].point], Zero2),
                 local_p2 |->
                    Padded([k \in 1 .. n |->
                              InverseTransformPoint(rb2.position,
                                                    manifold_contacts[k].point)],
                           Zero2),
                 n1 |-> n1,
                 dists |-> Padded([k \in 1 .. n |-> manifold_contacts[k].dist], 0),
                 im2 |-> rb2.mass_properties.inv_mass,
                 ii2 |-> rb2.effective_world_inv_inertia_sqrt
                           * rb2.effective_world_inv_inertia_sqrt,
                 num_contacts |-> n,
                 erp |-> gen_params.erp,
                 max_linear_correction |-> gen_params.max_linear_correction]]

\* generate whose overwriting mode starts at the first slot of out_constraints
generate_out_OverwritesFromStart(gen_params, manifold, bodies, out_constraints, push) ==
    LET cs == generate(gen_params, manifold, bodies)
    IN  IF push
        THEN out_constraints \o cs
        ELSE [i \in 1 .. Len(out_constraints) |->
                IF i \in 1 .. Len(cs) THEN cs[i] ELSE out_constraints[i]]

\* what generate leaves in out_constraints: the constraints pushed, or written
\* from manifold.data.constraint_index on
generate_out(gen_params, manifold, bodies, out_constraints, push) ==
    LET cs == generate(gen_params, manifold, bodies)
        first == manifold.constraint_index
    IN  IF push
        THEN out_constraints \o cs
        ELSE [i \in 1 .. Len(out_constraints) |->
                IF i - first \in 1 .. Len(cs)
                THEN cs[i - first]
                ELSE out_constraints[i]]

\* the translation taken from the impulse alone, the inverse mass forgotten
ApplyImpulseToPose_ForgetsMass(c, pos2, p2, n, err) ==
    LET dp2 == VSub(p2, pos2.translation)
        gcross2 == -GCross(dp2, n)
        ii_gcross2 == c.ii2 * gcross2
        inv_r == c.im2 + gcross2 * ii_gcross2
    IN  IF inv_r = 0
        THEN [pos2 EXCEPT !.nan = TRUE]
        ELSE [pos2 EXCEPT
                !.translation = VAdd(@, VScale(n, RoundDiv(-err, inv_r))),
                !.dtheta = IF ii_gcross2 * err = 0 THEN @
                           ELSE <<ii_gcross2 * err, inv_r>>]

\* the end of a contact's correction branch, common to both solvers: from the
\* clamped error err, the world point p2 and the normal n, the new pose
ApplyImpulseToPose(c, pos2, p2, n, err) ==
    LET dp2 == VSub(p2, pos2.translation)
        gcross2 == -GCross(dp2, n)
        ii_gcross2 == c.ii2 * gcross2
        inv_r == c.im2 + gcross2 * ii_gcross2
    IN  IF inv_r = 0
        THEN [pos2 EXCEPT !.nan = TRUE]          \* err / 0, then * 0
        ELSE [pos2 EXCEPT
                !.translation = VAdd(@, VScale(n, RoundDiv(-err * c.im2, inv_r))),
                !.dtheta = IF ii_gcross2 * err = 0 THEN @
                           ELSE <<ii_gcross2 * err, inv_r>>]

\* clamping of the error with min where the code has max
ClampedError_Min(c, dist, target_dist) ==
    Min(RoundDiv((dist - target_dist) * c.erp, ErpDen), -c.max_linear_correction)

\* ((dist - target_dist) * self.erp).max(-self.max_linear_correction)
ClampedError(c, dist, target_dist) ==
    Max(RoundDiv((dist - target_dist) * c.erp, ErpDen), -c.max_linear_correction)

\* the loop body without the test dist < target_dist
PlanePointContact_AlwaysCorrects(c, allowed_err, k, pos2) ==
    IF pos2.nan \/ pos2.lost THEN pos2
    ELSE IF pos2.dtheta[1] # 0 THEN [pos2 EXCEPT !.lost = TRUE]
    ELSE LET target_dist == -c.dists[k] - allowed_err
             p2 == TransformPoint(PoseIso(pos2), c.local_p2[k])
             dpos == VSub(p2, c.p1[k])
             dist == Dot(dpos, c.n1)
         IN  ApplyImpulseToPose(c, pos2, p2, c.n1,
                                ClampedError(c, dist, target_dist))

\* the loop body with the test dist < target_dist turned round
PlanePointContact_TestReversed(c, allowed_err, k, pos2) ==
    IF pos2.nan \/ pos2.lost THEN pos2
    ELSE IF pos2.dtheta[1] # 0 THEN [pos2 EXCEPT !.lost = TRUE]
    ELSE LET target_dist == -c.dists[k] - allowed_err
             p2 == TransformPoint(PoseIso(pos2), c.local_p2[k])
             dpos == VSub(p2, c.p1[k])
             dist == Dot(dpos, c.n1)
         IN  IF dist > target_dist
             THEN ApplyImpulseToPose(c, pos2, p2, c.n1,
                                     ClampedError(c, dist, target_dist))
             ELSE pos2

\* one iteration of solve_plane_point's loop, for contact k (from 1)
PlanePointContact(c, allowed_err, k, pos2) ==
    IF pos2.nan \/ pos2.lost THEN pos2
    ELSE IF pos2.dtheta[1] # 0 THEN [pos2 EXCEPT !.lost = TRUE]
    ELSE LET target_dist == -c.dists[k] - allowed_err
             p2 == TransformPoint(PoseIso(pos2), c.local_p2[k])
             dpos == VSub(p2, c.p1[k])
             dist == Dot(dpos, c.n1)
         IN  IF dist < target_dist
             THEN ApplyImpulseToPose(c, pos2, p2, c.n1,
                                     ClampedError(c, dist, target_dist))
             ELSE pos2

\* the integer square root of a perfect square, -1 otherwise
ISqrt(sq) ==
    IF \E x \in 0 .. sq : x * x = sq
    THEN CHOOSE x \in 0 .. sq : x * x = sq
    ELSE -1

\* one iteration of solve_point_point's loop, for contact k (from 1)
PointPointContact(c, allowed_err, k, pos2) ==
    IF pos2.nan \/ pos2.lost THEN pos2
    ELSE IF pos2.dtheta[1] # 0 THEN [pos2 EXCEPT !.lost = TRUE]
    ELSE LET target_dist == -c.dists[k] - allowed_err
             p2 == TransformPoint(PoseIso(pos2), c.local_p2[k])
             dpos == VSub(p2, c.p1[k])
             sqdist == NormSquared(dpos)
         IN  IF sqdist < target_dist * target_dist
             THEN LET dist == ISqrt(sqdist)
                  IN  IF dist = 0
                      THEN [pos2 EXCEPT !.nan = TRUE]     \* n = dpos / 0
                      ELSE IF dist < 0 \/ (dpos[1] # 0 /\ dpos[2] # 0)
                      THEN [pos2 EXCEPT !.lost = TRUE]
                      ELSE ApplyImpulseToPose(
                               c, pos2, p2,
                               <<dpos[1] \div dist, dpos[2] \div dist>>,
                               ClampedError(c, dist, target_dist))
             ELSE pos2

RECURSIVE PlanePointLoop(_, _, _, _)
\* for k in from .. num_contacts (from 1)
PlanePointLoop(c, allowed_err, from, pos2) ==
    IF from > c.num_contacts THEN pos2
    ELSE PlanePointLoop(c, allowed_err, from + 1,
                        PlanePointContact(c, allowed_err, from, pos2))

RECURSIVE PointPointLoop(_, _, _, _)
PointPointLoop(c, allowed_err, from, pos2) ==
    IF from > c.num_contacts THEN pos2
    ELSE PointPointLoop(c, allowed_err, from + 1,
                        PointPointContact(c, allowed_err, from, pos2))

\* the buffer is indexed from 0 in the code, from 1 here
Slot(c) == c.rb2 + 1

\* solve_plane_point whose contacts all compute their correction from the pose
\* read at the start of the call, the translations being added up
solve_plane_point_FromPoseRead(c, solve_params, buffer) ==
    LET pos0 == buffer[Slot(c)]
        each == [k \in 1 .. MAX_MANIFOLD_POINTS |->
                   IF k <= c.num_contacts
                   THEN PlanePointContact(c, solve_params.allowed_linear_error,
                                          k, pos0)
                   ELSE pos0]
    IN  [buffer EXCEPT ![Slot(c)] =
           [pos0 EXCEPT
              !.translation =
                 VAdd(each[1].translation,
                      VSub(each[2].translation, pos0.translation)),
              !.dtheta = IF each[2].dtheta[1] # 0 THEN each[2].dtheta
                         ELSE each[1].dtheta,
              !.nan = each[1].nan \/ each[2].nan,
              !.lost = each[1].lost \/ each[2].lost]]

\* solve_plane_point writing the pose back into the first slot, whatever rb2
solve_plane_point_WritesFirstSlot(c, solve_params, buffer) ==
    [buffer EXCEPT ![1] =
        PlanePointLoop(c, solve_params.allowed_linear_error, 1, buffer[Slot(c)])]

solve_plane_point(c, solve_params, buffer) ==
    [buffer EXCEPT ![Slot(c)] =
        PlanePointLoop(c, solve_params.allowed_linear_error, 1, buffer[Slot(c)])]

\* solve_point_point reading erp from the parameters passed at solve time
solve_point_point_ReadsErp(c, solve_params, buffer) ==
    [buffer EXCEPT ![Slot(c)] =
        PointPointLoop([c EXCEPT !.erp = solve_params.erp],
                       solve_params.allowed_linear_error, 1, buffer[Slot(c)])]

solve_point_point(c, solve_params, buffer) ==
    [buffer EXCEPT ![Slot(c)] =
        PointPointLoop(c, solve_params.allowed_linear_error, 1, buffer[Slot(c)])]

-----------------------------------------------------------------------------
(* SpecSolve: one constraint of a generated manifold, solved repeatedly *)

GroundHandle == 1
DynamicHandle == 2

SolveMassArgs ==
    {MassPropertiesZero,
     [inv_mass |-> 1, inv_principal_inertia_sqrt |-> 0, local_com |-> Zero2],
     [inv_mass |-> 1, inv_principal_inertia_sqrt |-> 1, local_com |-> Zero2],
     [inv_mass |-> 2, inv_principal_inertia_sqrt |-> 1, local_com |-> Zero2]}

\* a dynamic body resting on the ground, its origin 10 above the contact plane
SolveBodies ==
    {[update_world_mass_properties(
        build([BuilderNew(Dynamic) EXCEPT !.position = Iso(q, <<0, 10>>),
                                          !.mass_properties = mp]))
        EXCEPT !.active_set_offset = o] :
       q \in {0, 1}, mp \in SolveMassArgs, o \in {0, 1}}

Contact(x, y, dist) == [point |-> <<x, y>>, dist |-> dist]

\* the solver contacts of a manifold whose contacts penetrate by d
ContactSets(d) ==
    {<<Contact(0, 0, -d)>>,
     <<Contact(3, 0, -d)>>,
     <<Contact(0, 0, -d), Contact(0, 2, -d)>>,
     <<Contact(-3, 0, -d), Contact(3, 0, -d)>>,
     <<Contact(0, 0, -d), Contact(3, 0, -d), Contact(0, 0, 1)>>}

Depths == {2, 5, 10}

\* the normal points from body1 to body2; the dynamic body is above the ground
Manifolds ==
    {[body_pair |-> pair.body_pair, normal |-> pair.normal,
      solver_contacts |-> cs, num_active_contacts |-> n,
      category |-> cat, constraint_index |-> 0] :
       pair \in {[body_pair |-> [body1 |-> GroundHandle, body2 |-> DynamicHandle],
                  normal |-> <<0, 1>>],
                 [body_pair |-> [body1 |-> DynamicHandle, body2 |-> GroundHandle],
                  normal |-> <<0, -1>>]},
       cs \in UNION {ContactSets(d) : d \in Depths},
       n \in 1 .. 3,
       cat \in {"PointPoint", "PlanePoint"}}

GenParams ==
    {[erp |-> e, max_linear_correction |-> c] : e \in {0, 1, ErpDen}, c \in {3, 20}}

\* the IntegrationParameters passed at solve time: their erp (0.6) and
\* max_linear_correction are not those any constraint was generated with
SolveParams ==
    {[allowed_linear_error |-> a, erp |-> 3, max_linear_correction |-> 7] :
       a \in {0, 1, 8}}

\* the pose the buffer holds for the body when solving starts: the pose the
\* constraint was generated at, or one already moved along the normal
StartOffsets == {<<0, 0>>, <<0, 1>>}

\* the pose of the other slot of the buffer
OtherPose == SolverPose(Iso(1, <<7, 7>>))

SolveOps == {"solve_plane_point", "solve_point_point"}

InitSolve ==
    \E r \in SolveBodies, manifold \in Manifolds, gp \in GenParams,
       sp \in SolveParams, off \in StartOffsets :
        /\ manifold.num_active_contacts <= Len(manifold.solver_contacts)
        /\ LET bodies == [h \in {GroundHandle, DynamicHandle} |->
                            IF h = GroundHandle THEN build(BuilderNew(Static)) ELSE r]
               cs == generate(gp, manifold, bodies)
           IN  \E l \in 1 .. Len(cs) :
                 /\ rb = r
                 /\ constraint = cs[l]
                 /\ params = sp
                 /\ contact_manifold = NoManifold
                 /\ positions =
                      [i \in 1 .. 2 |->
                         IF i = Slot(cs[l])
                         THEN SolverPose(Iso(r.position.rotation,
                                             VAdd(r.position.translation, off)))
                         ELSE OtherPose]
                 /\ last = Op("generate", FALSE, 0)

\* AnyPositionConstraint::solve for the NongroupedPlanePointGround variant
SolvePlanePoint ==
    /\ constraint.variant = "NongroupedPlanePointGround"
    /\ LET new == solve_plane_point(constraint, params, positions)
       IN  /\ ~new[Slot(constraint)].lost
           /\ positions' = new
    /\ last' = Op("solve_plane_point", FALSE, 0)
    /\ UNCHANGED <<rb, constraint, params, contact_manifold>>

\* AnyPositionConstraint::solve for the NongroupedPointPointGround variant
SolvePointPoint ==
    /\ constraint.variant = "NongroupedPointPointGround"
    /\ LET new == solve_point_point(constraint, params, positions)
       IN  /\ ~new[Slot(constraint)].lost
           /\ positions' = new
    /\ last' = Op("solve_point_point", FALSE, 0)
    /\ UNCHANGED <<rb, constraint, params, contact_manifold>>

NextSolve ==
    \/ SolvePlanePoint
    \/ SolvePointPoint

SpecSolve == InitSolve /\ [][NextSolve]_vars

\* the displacement of the constrained body's translation over a step
Displacement == VSub(positions'[Slot(constraint)].translation,
                     positions[Slot(constraint)].translation)

\* the case of C9: a plane-point constraint with a single contact of depth
\* d > 0 on a body with mass, the lever arm from the body origin to the
\* contact point parallel to the normal, erp = 1, no allowed error and a
\* clamp that is not below d
C9_Case ==
    /\ constraint.variant = "NongroupedPlanePointGround"
    /\ constraint.num_contacts = 1
    /\ constraint.dists[1] < 0
    /\ constraint.im2 > 0
    /\ GCross(VSub(constraint.p1[1], rb.position.translation), constraint.n1) = 0
    /\ constraint.erp = ErpDen
    /\ params.allowed_linear_error = 0
    /\ constraint.max_linear_correction >= -constraint.dists[1]

\* the pose of C9's body once moved by exactly d along n1
C9_Goal ==
    [SolverPose(rb.position) EXCEPT
        !.translation = VAdd(@, VScale(constraint.n1, -constraint.dists[1]))]

\* C9: in the case above, a call of solve_plane_point on the pose the
\* constraint was generated at moves the body by exactly d along n1 and
\* leaves its rotation alone (the remaining penetration is zero), and a call
\* on the pose so reached changes nothing.
C9_OneCallRemovesPenetration ==
    [][(C9_Case /\ last'.op = "solve_plane_point") =>
         /\ positions[Slot(constraint)] = SolverPose(rb.position)
               => positions'[Slot(constraint)] = C9_Goal
         /\ positions[Slot(constraint)] = C9_Goal => positions' = positions]_vars

C9_Witness ==
    /\ C9_Case
    /\ last.op = "solve_plane_point"
    /\ positions[Slot(constraint)] = C9_Goal
    /\ C9_Goal # SolverPose(rb.position)

\* the case of C10: a call of one of the two solvers on a constraint every
\* contact of which penetrates by more than c = max_linear_correction, whose
\* result is a finite pose
C10_Case ==
    /\ last'.op \in SolveOps
    /\ \A k \in 1 .. constraint.num_contacts :
          -constraint.dists[k] > constraint.max_linear_correction
    /\ ~positions'[Slot(constraint)].nan

-----------------------------------------------------------------------------
(* Iterating solve_plane_point on one contact *)

\* the signed distance dist = (pos2 * local_p2[k] - p1[k]) . n1 of contact k
\* in the pose the buffer holds
ContactDist(k) ==
    Dot(VSub(TransformPoint(PoseIso(positions[Slot(constraint)]),
                            constraint.local_p2[k]),
             constraint.p1[k]),
        constraint.n1)

\* the penetration left at contact k: the depth at generation less the
\* distance travelled along n1 since
Penetration(k) == -constraint.dists[k] - ContactDist(k)

\* the same quantities in the pose after the step
ContactDistNext(k) ==
    Dot(VSub(TransformPoint(PoseIso(positions'[Slot(constraint)]),
                            constraint.local_p2[k]),
             constraint.p1[k]),
        constraint.n1)
PenetrationNext(k) == -constraint.dists[k] - ContactDistNext(k)

\* a sphere on a plane: a plane-point constraint of one penetrating contact,
\* the lever arm parallel to the normal, on a body with mass, with erp > 0
\* and a clamp that lets a correction through
SphereOnPlane ==
    /\ constraint.variant = "NongroupedPlanePointGround"
    /\ constraint.num_contacts = 1
    /\ constraint.dists[1] < 0
    /\ constraint.im2 > 0
    /\ GCross(VSub(constraint.p1[1], rb.position.translation), constraint.n1) = 0
    /\ constraint.erp > 0
    /\ constraint.max_linear_correction > 0

InitIterate ==
    /\ InitSolve
    /\ SphereOnPlane
    /\ constraint.erp = 1
    /\ rb.position.rotation = 0
    /\ rb.active_set_offset = 0

NextIterate == SolvePlanePoint

SpecIterate == InitIterate /\ [][NextIterate]_vars /\ WF_vars(SolvePlanePoint)

\* the excess of the penetration of contact 1 over allowed_linear_error
Excess == Penetration(1) - params.allowed_linear_error
ExcessNext == PenetrationNext(1) - params.allowed_linear_error

\* the case of C12: the sphere on the plane with erp = 0.2, a penetration
\* above allowed_linear_error and a clamp that does not cut the correction
C12_Case ==
    /\ SphereOnPlane
    /\ constraint.erp = 1
    /\ Excess > 0
    /\ constraint.max_linear_correction * ErpDen >= Excess * constraint.erp

C12_Settled ==
    /\ SphereOnPlane
    /\ Excess >= 0
    /\ 2 * Excess * constraint.erp < ErpDen

NoContactWithinTarget ==
    \/ positions[Slot(constraint)].nan
    \/ \A k \in 1 .. constraint.num_contacts :
          LET target_dist == -constraint.dists[k] - params.allowed_linear_error
              dpos == VSub(TransformPoint(PoseIso(positions[Slot(constraint)]),
                                          constraint.local_p2[k]),
                           constraint.p1[k])
          IN  IF constraint.variant = "NongroupedPlanePointGround"
              THEN Dot(dpos, constraint.n1) >= target_dist
              ELSE NormSquared(dpos) >= target_dist * target_dist

\* C17: a call of solve_point_point or solve_plane_point leaves every slot of
\* the buffer other than rb2 as it was, the buffer keeps its length, and when
\* no contact is within its target distance the slot rb2 is unchanged too.
C17_SolverFrame ==
    [][last'.op \in SolveOps =>
         /\ DOMAIN positions' = DOMAIN positions
         /\ \A i \in DOMAIN positions :
               i # Slot(constraint) => positions'[i] = positions[i]
         /\ NoContactWithinTarget => positions' = positions]_vars

\* a call has moved the body of slot rb2 = 1 and the other slot is as it was
C17_Witness ==
    /\ last.op \in SolveOps
    /\ constraint.rb2 = 1
    /\ positions[1] = OtherPose
    /\ ~positions[2].nan
    /\ \A off \in StartOffsets :
          positions[2].translation # VAdd(rb.position.translation, off)

\* the values of IntegrationParameters a call may be passed
AnySolveParams ==
    [allowed_linear_error : {0, 1, 8}, erp : {1, ErpDen},
     max_linear_correction : {3, 20}]

\* both solvers give, with the parameters p, the result they give with the
\* parameters of the state (a result the model cannot express is left out)
SameResultWith(p) ==
    LET s == Slot(constraint)
        pp == solve_point_point(constraint, p, positions)
        pp0 == solve_point_point(constraint, params, positions)
        pl == solve_plane_point(constraint, p, positions)
        pl0 == solve_plane_point(constraint, params, positions)
    IN  /\ (pp[s].lost \/ pp0[s].lost \/ pp = pp0)
        /\ (pl[s].lost \/ pl0[s].lost \/ pl = pl0)

\* C18 as stated: for the constraint and the buffer of any state, both
\* solvers give the same result with any IntegrationParameters.
C18_ResultIgnoresSolveParams ==
    \A p \in AnySolveParams : SameResultWith(p)

\* C18, amended: both solvers give the same result with any two
\* IntegrationParameters that agree on allowed_linear_error, whatever their
\* erp and max_linear_correction.
C18_ResultDependsOnAllowedErrorOnly ==
    \A p \in AnySolveParams :
       p.allowed_linear_error = params.allowed_linear_error => SameResultWith(p)

\* after a call, a constraint whose next call still corrects the pose, with
\* parameters whose erp and clamp are not those of the constraint
C18_Witness ==
    /\ last.op \in SolveOps
    /\ ~positions[Slot(constraint)].nan
    /\ params.erp # constraint.erp
    /\ params.max_linear_correction # constraint.max_linear_correction
    /\ IF last.op = "solve_plane_point"
       THEN LET r == solve_plane_point(constraint, params, positions)
            IN  ~r[Slot(constraint)].lost /\ r # positions
       ELSE LET r == solve_point_point(constraint, params, positions)
            IN  ~r[Slot(constraint)].lost /\ r # positions

\* the pose the buffer holds for the constrained body is one whose points
\* the model can compute
PoseComputable ==
    /\ ~positions[Slot(constraint)].nan
    /\ positions[Slot(constraint)].dtheta[1] = 0

\* for the first contact the loop of a solver visits, in the pose the buffer
\* holds: dpos = pos2 * local_p2[0] - p1[0] and target_dist
FirstDpos ==
    VSub(TransformPoint(PoseIso(positions[Slot(constraint)]), constraint.local_p2[1]),
         constraint.p1[1])
FirstTargetDist == -constraint.dists[1] - params.allowed_linear_error

\* the correction branch of solve_point_point is taken for that contact
FirstPointPointBranch ==
    /\ constraint.variant = "NongroupedPointPointGround"
    /\ PoseComputable
    /\ NormSquared(FirstDpos) < FirstTargetDist * FirstTargetDist

\* the correction branch of solve_plane_point is taken for that contact
FirstPlanePointBranch ==
    /\ constraint.variant = "NongroupedPlanePointGround"
    /\ PoseComputable
    /\ Dot(FirstDpos, constraint.n1) < FirstTargetDist

\* C19: whenever the correction branch of solve_point_point is taken, the
\* distance dist = sqrt(sqdist) the normal is divided by is not zero.
C19_PointPointDistanceNotZero ==
    FirstPointPointBranch => NormSquared(FirstDpos) # 0

\* inv_r = im2 + gcross2 . (ii2 * gcross2) for the first contact, with the
\* normal n
FirstInvR(n) ==
    LET p2 == VAdd(FirstDpos, constraint.p1[1])
        dp2 == VSub(p2, positions[Slot(constraint)].translation)
        gcross2 == -GCross(dp2, n)
    IN  constraint.im2 + gcross2 * (constraint.ii2 * gcross2)

\* C20: whenever a correction branch is taken, the denominator inv_r of the
\* impulse is strictly positive.
C20_ImpulseDenominatorPositive ==
    /\ FirstPlanePointBranch => FirstInvR(constraint.n1) > 0
    /\ (FirstPointPointBranch /\ ISqrt(NormSquared(FirstDpos)) > 0
          /\ (FirstDpos[1] = 0 \/ FirstDpos[2] = 0)) =>
         LET dist == ISqrt(NormSquared(FirstDpos))
         IN  FirstInvR(<<FirstDpos[1] \div dist, FirstDpos[2] \div dist>>) > 0

-----------------------------------------------------------------------------
(* The order of the corrections *)

\* the pose after contact k (from 1) of a call of the solver `op` has been
\* processed on the pose pos2
ContactStep(op, k, pos2) ==
    IF k > constraint.num_contacts THEN pos2
    ELSE IF op = "solve_plane_point"
    THEN PlanePointContact(constraint, params.allowed_linear_error, k, pos2)
    ELSE PointPointContact(constraint, params.allowed_linear_error, k, pos2)

\* C25: a solve call processes the contacts in index order, contact k
\* computing its world point p2 and its correction from the pose already
\* corrected by the contacts before it in the same call, and the first one
\* from the pose the position buffer holds for rb2 when the call starts, which
\* is the pose the call before it wrote: the pose written is the second
\* contact's step applied to the first contact's step applied to
\* positions[rb2].
C25_GaussSeidelOrder ==
    [][last'.op \in SolveOps =>
         positions'[Slot(constraint)] =
            ContactStep(last'.op, 2,
                        ContactStep(last'.op, 1, positions[Slot(constraint)]))]_vars

\* an earlier call of solve_plane_point has moved the body away from the pose
\* of generation, and in the call to come both contacts correct, the second
\* by another amount than it would from the pose the buffer holds now; from
\* the pose of generation the call would give another pose
C25_Witness ==
    LET pos0 == positions[Slot(constraint)]
        generated == SolverPose(rb.position)
        after1 == ContactStep("solve_plane_point", 1, pos0)
        after2 == ContactStep("solve_plane_point", 2, after1)
    IN  /\ last.op = "solve_plane_point"
        /\ constraint.num_contacts = 2
        /\ pos0.translation # generated.translation
        /\ ~after2.nan /\ ~after2.lost
        /\ after1.translation # pos0.translation
        /\ after2.translation # after1.translation
        /\ VSub(after2.translation, after1.translation)
              # VSub(ContactStep("solve_plane_point", 2, pos0).translation,
                     pos0.translation)
        /\ after2.translation
              # ContactStep("solve_plane_point", 2,
                    ContactStep("solve_plane_point", 1, generated)).translation

-----------------------------------------------------------------------------
(* SpecRoundTrip: integrating the pose and reading the velocity back *)

\* the largest component of a velocity read back that is still followed
MaxReadBack == 3

InitRoundTrip ==
    /\ rb \in {build([BuilderNew(s) EXCEPT
                        !.position = pos, !.linvel = v, !.angvel = a,
                        !.mass_properties = mp]) :
                 s \in {Dynamic, Kinematic}, pos \in PoseArgs, v \in VecArgs,
                 a \in AngArgs, mp \in MassArgs}
    /\ last = Op("build", FALSE, 0)
    /\ positions = <<>>
    /\ constraint = NoConstraint
    /\ params = NoParams
    /\ contact_manifold = NoManifold

NextRoundTrip ==
    \/ \E dt \in DtArgs : IntegrateNextPosition(dt)
    \/ \E inv_dt \in {1} :
          /\ VInRange(compute_velocity_from_next_position(rb, inv_dt).linvel,
                      MaxReadBack)
          /\ ComputeVelocityFromNextPosition(inv_dt)
    \/ \E v \in VecArgs : SetLinvel(v, FALSE)
    \/ \E a \in AngArgs : SetAngvel(a, FALSE)

SpecRoundTrip == InitRoundTrip /\ [][NextRoundTrip]_vars

\* C13: compute_velocity_from_next_position(1 / dt) called right after
\* integrate_next_position(dt) leaves linvel and angvel as they were.
C13_VelocityRoundTrip ==
    [][(/\ last.op = "integrate_next_position"
        /\ last'.op = "compute_velocity_from_next_position"
        /\ last.dt * last'.dt = 1)
          => (rb'.linvel = rb.linvel /\ rb'.angvel = rb.angvel)]_vars

-----------------------------------------------------------------------------
(* SpecGenerate: generate called on the manifolds of a ground contact *)

\* the capacity of out_constraints that is followed
MaxConstraints == 2

\* a non-dynamic body and a dynamic one
GenBodySets ==
    {[h \in {GroundHandle, DynamicHandle} |->
        IF h = GroundHandle THEN build(BuilderNew(gs)) ELSE r] :
       gs \in {Static, Kinematic},
       r \in {b \in SolveBodies : /\ b.mass_properties.inv_mass = 2
                                  /\ b.active_set_offset = 1
                                  /\ b.position.rotation = 1}}

GenManifolds ==
    {[body_pair |-> pair.body_pair, normal |-> pair.normal,
      solver_contacts |-> cs, num_active_contacts |-> n,
      category |-> cat, constraint_index |-> first] :
       pair \in {[body_pair |-> [body1 |-> GroundHandle, body2 |-> DynamicHandle],
                  normal |-> <<0, 1>>],
                 [body_pair |-> [body1 |-> DynamicHandle, body2 |-> GroundHandle],
                  normal |-> <<0, -1>>]},
       cs \in {<<Contact(0, 0, -2)>>,
               <<Contact(0, 0, -2), Contact(3, 0, -5), Contact(0, 2, 1)>>},
       n \in 0 .. 3,
       cat \in {"PointPoint", "PlanePoint"},
       first \in {0, 1}}

InitGenerate ==
    /\ rb \in GenBodySets
    /\ params \in {gp \in GenParams : gp.erp = 1 /\ gp.max_linear_correction = 3}
    /\ constraint = <<>>
    /\ contact_manifold = NoManifold
    /\ positions = <<>>
    /\ last = Op("new", FALSE, 0)

\* PositionGroundConstraint::generate(params, manifold, bodies,
\* out_constraints, push); a write past the end of out_constraints panics and
\* is not followed
Generate(manifold, push) ==
    /\ manifold.num_active_contacts <= Len(manifold.solver_contacts)
    /\ LET count == Len(generate(params, manifold, rb))
       IN  IF push
           THEN Len(constraint) + count <= MaxConstraints
           ELSE manifold.constraint_index + count <= Len(constraint)
    /\ constraint' = generate_out(params, manifold, rb, constraint, push)
    /\ contact_manifold' = manifold
    /\ last' = Op("generate", push, 0)
    /\ UNCHANGED <<rb, params, positions>>

NextGenerate ==
    \E manifold \in GenManifolds, push \in BOOLEAN : Generate(manifold, push)

SpecGenerate == InitGenerate /\ [][NextGenerate]_vars

\* ceil(n / MAX_MANIFOLD_POINTS)
CeilChunks(n) == (n + MAX_MANIFOLD_POINTS - 1) \div MAX_MANIFOLD_POINTS

\* over a step of generate: the index (from 0) in out_constraints of the
\* first constraint the call is to write
FirstWritten ==
    IF last'.flag THEN Len(constraint) ELSE contact_manifold'.constraint_index

\* over a step of generate: the l-th constraint (from 0) written by the call
Written(l) == constraint'[FirstWritten + l + 1]

\* C15: every constraint generate writes has rb2 equal to the
\* active_set_offset of the Dynamic body of the pair, im2, ii2 and local_p2
\* taken from that body, and n1 equal to the manifold normal, negated exactly
\* when the manifold's body2 is the non-dynamic body.
C15_RolesNormalised ==
    [][last'.op = "generate" =>
         LET manifold == contact_manifold'
             b1 == rb[manifold.body_pair.body1]
             b2 == rb[manifold.body_pair.body2]
             dyn == IF is_dynamic(b2) THEN b2 ELSE b1
         IN  \A l \in 0 .. CeilChunks(manifold.num_active_contacts) - 1 :
               /\ Written(l).rb2 = dyn.active_set_offset
               /\ Written(l).im2 = dyn.mass_properties.inv_mass
               /\ Written(l).ii2 = dyn.effective_world_inv_inertia_sqrt
                                     * dyn.effective_world_inv_inertia_sqrt
               /\ \A k \in 1 .. Written(l).num_contacts :
                     Written(l).local_p2[k] =
                        InverseTransformPoint(dyn.position, Written(l).p1[k])
               /\ Written(l).n1 = IF ~is_dynamic(b2)
                                  THEN VNeg(manifold.normal)
                                  ELSE manifold.normal]_vars

\* generate has written the constraints of a manifold whose body2 is the
\* non-dynamic body: the normal is stored negated
C15_Witness ==
    /\ last.op = "generate"
    /\ ~is_dynamic(rb[contact_manifold.body_pair.body2])
    /\ is_dynamic(rb[contact_manifold.body_pair.body1])
    /\ contact_manifold.num_active_contacts > 0
    /\ \E i \in 1 .. Len(constraint) :
          /\ constraint[i].n1 = VNeg(contact_manifold.normal)
          /\ constraint[i].rb2 = 1
          /\ constraint[i].im2 = 2

RECURSIVE SumContacts(_, _)
\* the sum of num_contacts over the first `count` constraints written
SumContacts(count, l) ==
    IF l >= count THEN 0 ELSE Written(l).num_contacts + SumContacts(count, l + 1)

\* C16: for a manifold of n active contacts generate writes exactly
\* ceil(n / MAX_MANIFOLD_POINTS) constraints (none when n = 0) and leaves the
\* others alone; each has between 1 and MAX_MANIFOLD_POINTS contacts, the
\* num_contacts sum to n, and contact k of constraint l is active contact
\* l * MAX_MANIFOLD_POINTS + k.
C16_Chunking ==
    [][last'.op = "generate" =>
         LET manifold == contact_manifold'
             n == manifold.num_active_contacts
             count == CeilChunks(n)
         IN  /\ Len(constraint') =
                  IF last'.flag THEN Len(constraint) + count ELSE Len(constraint)
             /\ FirstWritten + count <= Len(constraint')
             /\ \A i \in 1 .. Len(constraint) :
                   (i <= FirstWritten \/ i > FirstWritten + count)
                      => constraint'[i] = constraint[i]
             /\ \A l \in 0 .. count - 1 :
                   /\ Written(l).num_contacts \in 1 .. MAX_MANIFOLD_POINTS
                   /\ \A k \in 0 .. Written(l).num_contacts - 1 :
                        LET contact ==
                              manifold.solver_contacts[l * MAX_MANIFOLD_POINTS + k + 1]
                        IN  /\ Written(l).p1[k + 1] = contact.point
                            /\ Written(l).dists[k + 1] = contact.dist
             /\ SumContacts(count, 0) = n]_vars

\* generate has written the two constraints of a manifold of three contacts
C16_Witness ==
    /\ last.op = "generate"
    /\ contact_manifold.num_active_contacts = MAX_MANIFOLD_POINTS + 1
    /\ Len(constraint) = 2
    /\ constraint[1].num_contacts = MAX_MANIFOLD_POINTS
    /\ constraint[2].num_contacts = 1
    /\ constraint[2].p1[1] = contact_manifold.solver_contacts[3].point

\* C22: with push the constraints of the manifold are appended to
\* out_constraints in chunk order and no existing element changes; without
\* push chunk l overwrites out_constraints[constraint_index + l], the length
\* is unchanged and so is every element outside
\* [constraint_index, constraint_index + number of chunks).  In both modes
\* the variant is NongroupedPointPointGround exactly when the manifold
\* category is PointPoint, and NongroupedPlanePointGround otherwise.
C22_OutputPlacement ==
    [][last'.op = "generate" =>
         LET manifold == contact_manifold'
             count == CeilChunks(manifold.num_active_contacts)
             first == manifold.constraint_index
             Placed(at, l) ==
                /\ at + l + 1 \in 1 .. Len(constraint')
                /\ constraint'[at + l + 1].p1[1] =
                      manifold.solver_contacts[l * MAX_MANIFOLD_POINTS + 1].point
                /\ constraint'[at + l + 1].variant =
                      IF manifold.category = "PointPoint"
                      THEN "NongroupedPointPointGround"
                      ELSE "NongroupedPlanePointGround"
         IN  IF last'.flag
             THEN /\ Len(constraint') = Len(constraint) + count
                  /\ SubSeq(constraint', 1, Len(constraint)) = constraint
                  /\ \A l \in 0 .. count - 1 : Placed(Len(constraint), l)
             ELSE /\ Len(constraint') = Len(constraint)
                  /\ \A i \in 1 .. Len(constraint) :
                        ~(i - 1 >= first /\ i - 1 < first + count)
                           => constraint'[i] = constraint[i]
                  /\ \A l \in 0 .. count - 1 : Placed(first, l)]_vars

\* generate without push has overwritten the slot at constraint_index 1 with
\* a PointPoint constraint and left the PlanePoint constraint before it
C22_Witness ==
    /\ last.op = "generate"
    /\ ~last.flag
    /\ contact_manifold.constraint_index = 1
    /\ contact_manifold.num_active_contacts = 1
    /\ contact_manifold.category = "PointPoint"
    /\ Len(constraint) = 2
    /\ constraint[2].variant = "NongroupedPointPointGround"
    /\ constraint[1].variant = "NongroupedPlanePointGround"
    /\ constraint[1].num_contacts = MAX_MANIFOLD_POINTS

-----------------------------------------------------------------------------
(* SpecChanges: the SLEEP flag of RigidBodyChanges, from cleared flags *)

\* a built body after its consumer has read and cleared the change flags
InitChanges ==
    /\ rb \in {[build(b) EXCEPT !.changes = {}] : b \in ActivationBuilders}
    /\ last = Op("build", FALSE, 0)
    /\ positions = <<>>
    /\ constraint = NoConstraint
    /\ params = NoParams
    /\ contact_manifold = NoManifold

NextChanges ==
    \/ Sleep
    \/ \E strong \in BOOLEAN : WakeUp(strong)
    \/ \E s \in {1, 2}, wake \in BOOLEAN : SetGravityScale(s, wake)

SpecChanges == InitChanges /\ [][NextChanges]_vars

\* C21: every call of sleep, wake_up or set_gravity_scale that changes
\* activation.sleeping, in either direction, leaves RigidBodyChanges::SLEEP
\* set; hence, no call clearing the flags, sleeping differs from its value
\* when the flags were cleared only if SLEEP is set.
C21_SleepChangeMarksSleep ==
    [][rb'.activation.sleeping # rb.activation.sleeping
         => "SLEEP" \in rb'.changes]_vars

-----------------------------------------------------------------------------
(* SpecActivation: the operations that write the activation status *)

NextActivation ==
    \/ Sleep
    \/ \E strong \in BOOLEAN : WakeUp(strong)
    \/ \E s \in {1, 2}, wake \in BOOLEAN : SetGravityScale(s, wake)
    \/ \E s \in BodyStatus : SetBodyStatus(s)
    \/ UpdateEnergy

SpecActivation == Init /\ [][NextActivation]_vars

\* C24: in every state reachable from a built body by sleep, wake_up,
\* set_gravity_scale, set_body_status and update_energy,
\* activation.is_active() is true exactly when activation.sleeping is false.
C24_IsActiveIffNotSleeping ==
    is_active(rb.activation) <=> ~rb.activation.sleeping

-----------------------------------------------------------------------------
(* SpecSolveLocked: the constraint of a translation-locked body, solved *)

\* the dynamic bodies of SpecSolve that have mass, their translations locked
LockedBodies ==
    {set_translation_locked(r, TRUE) :
       r \in {b \in SolveBodies : b.mass_properties.inv_mass # 0}}

InitSolveLocked ==
    \E r \in LockedBodies, manifold \in Manifolds, gp \in GenParams,
       sp \in SolveParams :
        /\ manifold.num_active_contacts <= Len(manifold.solver_contacts)
        /\ LET bodies == [h \in {GroundHandle, DynamicHandle} |->
                            IF h = GroundHandle THEN build(BuilderNew(Static)) ELSE r]
               cs == generate(gp, manifold, bodies)
           IN  \E l \in 1 .. Len(cs) :
                 /\ rb = r
                 /\ constraint = cs[l]
                 /\ params = sp
                 /\ contact_manifold = NoManifold
                 /\ positions =
                      [i \in 1 .. 2 |->
                         IF i = Slot(cs[l]) THEN SolverPose(r.position)
                         ELSE OtherPose]
                 /\ last = Op("generate", FALSE, 0)

SpecSolveLocked == InitSolveLocked /\ [][NextSolve]_vars

\* C26: for a Dynamic body whose translation is locked (effective_inv_mass is
\* 0 after update_world_mass_properties) and whose local inverse mass is not
\* 0, a call of solve_plane_point or solve_point_point on a constraint
\* generated for it leaves the translation of positions[rb2] as it was,
\* whatever the penetration depth.
C26_LockedTranslationNotMoved ==
    [][(/\ last'.op \in SolveOps
        /\ is_dynamic(rb)
        /\ rb.effective_inv_mass = 0
        /\ rb.mass_properties.inv_mass # 0)
          => positions'[Slot(constraint)].translation
                = positions[Slot(constraint)].translation]_vars

====
